---- MODULE Spec2Model ----
(***************************************************************************)
(* Model of the VB6-to-.NET conversion pipeline: the orchestrator          *)
(* (MCP.run), its six stage agents, the SSE log handler that turns log     *)
(* records into queued events, the /convert, /download and /stream         *)
(* handlers (Backend/server.py and Backend/routes.py) and the output       *)
(* directory that holds the artifacts.                                     *)
(*                                                                         *)
(* One asyncio event loop runs everything, so code between two real        *)
(* suspension points runs without interleaving.  The steps below are the   *)
(* statements of MCP.run and of the agents, in program order; handlers of  *)
(* other requests (download, stream) interleave between them.  One         *)
(* conversion is in progress at a time (spec section 5: single run per     *)
(* Orchestrator instance); the instance is reused by later runs.           *)
(***************************************************************************)
EXTENDS Integers, Sequences, FiniteSets, TLC

VARIABLES
    app,            \* which module serves: "server" (server.py) or "routes" (routes.py)
    state,          \* BaseAgent.state of each of the six agents
    pc,             \* position of the conversion task inside MCP.run
    runs,           \* number of conversions submitted so far
    tempDir,        \* TRUE while the run's TemporaryDirectory exists
    srcKind,        \* "zip" or "link": the branch IngestorAgent.run takes
    given,          \* (history) what the ingestor was handed and what it did with it
    nFound,         \* len(files) returned by the ingestor
    fileSt,         \* per-file ParserAgent.run task: "none" | "new" | "waiting" | "done"
    taskRes,        \* result held by each per-file task
    taskIn,         \* (history) what each per-file task was fed: read error / transform outcome
    parsed_results, \* the list asyncio.gather returned
    context_map,    \* what ContextAnalyzerAgent.run returned
    yaml_summary,   \* what SummarizerAgent.run returned
    code_files,     \* what GeneratorAgent.run returned: the set of file names of the mapping
    convId,         \* conversion_id generated by FileBuilderAgent.run in this run (0: none)
    store,          \* ids whose <id>.zip exists in OUTPUT_DIR
    old,            \* ids in store whose file is older than FILE_EXPIRATION_SECONDS
    writes,         \* (history) number of times <id>.zip was opened for writing
    progress,       \* SSELogHandler.progress
    current_agent,  \* SSELogHandler.current_agent
    queue,          \* SSELogHandler.queue (asyncio.Queue, no maxsize)
    waiting,        \* TRUE while the /convert handler awaits wait_for
    response,       \* what the /convert caller received for the latest submission
    taskResult,     \* outcome of the conversion task
    exc,            \* HTTP status of the exception travelling up MCP.run (0: none)
    lastPipe,       \* (history) last pipeline-level state this run emitted
    pipeSeen,       \* (history) pipeline-level terminal states this run emitted
    invoked,        \* (history) agents whose run() was called in this run
    raisedBy,       \* (history) the agent whose run() raised
    lastDl,         \* (history) the latest retrieval: id, whether the file was there, status
    stream,         \* /stream consumer: "off" | "open"
    emitted,        \* (history) the events the latest step put on the queue, in full
    sent,           \* (history) the queue entries the latest step sent to the stream's client
    closed,         \* (history) how the latest step closed the stream: None | "finished" | "error"
    lmPhase,        \* CustomAzureOpenAI.forward: "idle" | "try" | "sleep" | "returned" | "raised"
    attempt,        \* the loop variable of forward's for statement
    failures,       \* (history) the exceptions the calls of this forward raised, in order
    waits,          \* (history) the arguments of time.sleep, in order
    lmValue         \* what forward returned to its caller

vars == <<app, state, pc, runs, tempDir, srcKind, given, nFound, fileSt, taskRes, taskIn,
          parsed_results, context_map, yaml_summary, code_files, convId, store, old, writes,
          progress, current_agent, queue, waiting, response, taskResult, exc,
          lastPipe, pipeSeen, invoked, raisedBy, lastDl, stream, emitted, sent, closed,
          lmPhase, attempt, failures, waits, lmValue>>

\* the variables of one call of CustomAzureOpenAI.forward
lm == <<lmPhase, attempt, failures, waits, lmValue>>

----------------------------------------------------------------------------
(* Bounds of the model *)
MaxRuns  == 2       \* conversions submitted
MaxFound == 3       \* files the ingestor can discover
MaxBacklog == 1     \* events still queued when the next conversion is submitted

(* Program constants *)
\* server.py:120 reads the file limit from the MAX_FILES variable (50 when unset);
\* the model is of a deployment configured with MAX_FILES=2, so that the truncation
\* at line 1582 is exercised with few files
MAX_FILES    == 2
total_stages == 6   \* server.py:43
TimeoutStatus == 504

Idle      == "Idle"
Running   == "Running"
Completed == "Completed"
Failed    == "Failed"
AgentState == {Idle, Running, Completed, Failed}

None == "None"

Ingestor    == "IngestorAgent"
Parser      == "ParserAgent"
Context     == "ContextAnalyzerAgent"
Summarizer  == "SummarizerAgent"
Generator   == "GeneratorAgent"
FileBuilder == "FileBuilderAgent"

\* MCP.agents, in the order of the list
agents == <<Ingestor, Parser, Context, Summarizer, Generator, FileBuilder>>
Agents == {agents[i] : i \in 1..Len(agents)}

IndexOf(a) == CHOOSE i \in 1..Len(agents) : agents[i] = a

Ids == 1..MaxRuns

Min(a, b) == IF a < b THEN a ELSE b

----------------------------------------------------------------------------
(* SSELogHandler.emit *)

\* BaseAgent.set_state logs with stage = self.name.lower()
Lower(a) == CASE a = Ingestor    -> "ingestoragent"
              [] a = Parser      -> "parseragent"
              [] a = Context     -> "contextanalyzeragent"
              [] a = Summarizer  -> "summarizeragent"
              [] a = Generator   -> "generatoragent"
              [] a = FileBuilder -> "filebuilderagent"

\* the record BaseAgent.set_state hands to the logger
StateEvent(a, s) == [event_type |-> "state_update", stage |-> Lower(a), agent |-> a, state |-> s]

\* the record MCP.set_pipeline_state hands to the logger
PipelineEvent(s) == [event_type |-> "state_update", stage |-> "pipeline", agent |-> "MCP", state |-> s]

\* logger.info / warning / error with only a stage in `extra`
LogEvent(stage) == [event_type |-> "log", stage |-> stage, agent |-> None, state |-> None]

\* emit, lines 63-66: current_agent follows Running and is cleared by the same agent's end
NextCurrentAgent(cur, ev) ==
    IF ev.event_type = "state_update" /\ ev.state = Running THEN ev.agent
    ELSE IF ev.event_type = "state_update" /\ ev.state \in {Completed, Failed}
         THEN (IF cur = ev.agent THEN None ELSE cur)
         ELSE cur

\* the same without min(..., 100)
NextProgressUncapped(p, ev) ==
    IF ev.event_type = "state_update" /\ ev.state = Completed
    THEN p + (100 \div total_stages)
    ELSE p

\* emit, lines 69-70: every Completed state_update adds 100 // total_stages, capped at 100
NextProgress(p, ev) ==
    IF ev.event_type = "state_update" /\ ev.state = Completed
    THEN Min(p + (100 \div total_stages), 100)
    ELSE p

\* SSELogHandler.__init__, line 41: asyncio.Queue() is built without a maxsize, which
\* defaults to 0
maxsize == 0

\* asyncio.Queue.full(): a queue whose maxsize is not positive is never full
full(q) == IF maxsize <= 0 THEN FALSE ELSE Len(q) >= maxsize

\* emit: h is the handler (progress, current_agent, queue); the queued entry keeps the
\* fields a reader of the queue branches on, `out` keeps the whole event; put_nowait
\* on a full queue raises QueueFull, which line 87 hands to handleError
emit(h, ev, run) ==
    LET cur == NextCurrentAgent(h.current_agent, ev)
        p   == NextProgress(h.progress, ev)
    IN [progress      |-> p,
        current_agent |-> cur,
        queue         |-> IF full(h.queue) THEN h.queue
                          ELSE Append(h.queue, [stage |-> ev.stage, state |-> ev.state, run |-> run]),
        out           |-> Append(h.out, [event_type |-> ev.event_type, stage |-> ev.stage,
                                         agent |-> ev.agent, state |-> ev.state,
                                         current_agent |-> cur, progress |-> p, run |-> run])]

RECURSIVE EmitAll(_, _, _)
EmitAll(h, evs, run) ==
    IF evs = <<>> THEN h ELSE EmitAll(emit(h, Head(evs), run), Tail(evs), run)

\* the step logs the records evs, in order, during conversion number run
EmitsRun(evs, run) ==
    LET h == EmitAll([progress |-> progress, current_agent |-> current_agent,
                      queue |-> queue, out |-> <<>>], evs, run)
    IN /\ progress' = h.progress
       /\ current_agent' = h.current_agent
       /\ queue' = h.queue
       /\ emitted' = h.out
       /\ sent' = <<>>
       /\ closed' = None

Emits(evs) == EmitsRun(evs, runs)

NoEmit == /\ UNCHANGED <<progress, current_agent, queue>>
          /\ emitted' = <<>>
          /\ sent' = <<>>
          /\ closed' = None

----------------------------------------------------------------------------
(* Values the stages exchange.  A local of MCP.run is set back to its initial value  *)
(* by the step that reads it last.                                                   *)

\* the keys of a per-file structured result
ResultKeys == {"procedures", "events", "globals", "dependencies", "main_logic", "metadata"}

\* the literal returned at server.py 305, 308, 311 and 1441: six keys, nothing in them
EmptyResult == [keys |-> ResultKeys, empty |-> TRUE, globals_ok |-> TRUE]

\* outcomes of the text transform as ParserModule.forward sees them
\*   raise      lm.forward raised after its retries
\*   empty      "" or None came back
\*   unparsable json.loads raises JSONDecodeError
\*   nonobject  decodes, but result['metadata'][...] or len(procedures/events) raises
\*   partial    decodes to an object with an object under "metadata" and other keys missing
\*   badglobals decodes to an object with all keys, "globals" not iterable
\*   wellformed decodes to the structure the prompt asks for
TransformOutcomes == {"raise", "empty", "unparsable", "nonobject", "partial", "badglobals", "wellformed"}

\* the outcomes that forward itself turns into the empty result (lines 296-311)
DegradedOutcomes == {"raise", "empty", "unparsable", "nonobject"}

\* forward without the write into result['metadata']: whatever decodes is returned
ParserModule_forward_no_metadata_write(r) ==
    CASE r = "wellformed" -> [keys |-> ResultKeys, empty |-> FALSE, globals_ok |-> TRUE]
      [] r = "badglobals" -> [keys |-> ResultKeys, empty |-> FALSE, globals_ok |-> FALSE]
      [] r = "partial"    -> [keys |-> {"metadata"}, empty |-> FALSE, globals_ok |-> TRUE]
      [] r = "nonobject"  -> [keys |-> {}, empty |-> FALSE, globals_ok |-> TRUE]
      [] OTHER            -> EmptyResult

ParserModule_forward(r) ==
    CASE r = "wellformed" -> [keys |-> ResultKeys, empty |-> FALSE, globals_ok |-> TRUE]
      [] r = "badglobals" -> [keys |-> ResultKeys, empty |-> FALSE, globals_ok |-> FALSE]
      [] r = "partial"    -> [keys |-> {"metadata"}, empty |-> FALSE, globals_ok |-> TRUE]
      [] OTHER            -> EmptyResult

\* ParserAgent.run, lines 1427-1436: metadata is (re)attached, nothing else is added
ParserAgent_result(res) == [res EXCEPT !.keys = res.keys \cup {"metadata"}]

\* a cut one file short of the limit
FilesToProcessOneShort(n) == Min(n, MAX_FILES - 1)

\* files[:MAX_FILES]
FilesToProcess(n) == Min(n, MAX_FILES)

\* a wait that returns with the first task that is done
GatherFirstCompleted(fs, n) == \E i \in 1..FilesToProcess(n) : fs[i] = "done"

\* asyncio.gather returns once every per-file task is done
GatherReady(fs, n) == \A i \in 1..FilesToProcess(n) : fs[i] = "done"

ContextOutcomes == {"raise", "empty", "unparsable", "object", "nonobject"}

\* the failures of the text transform as ContextAnalyzerModule.forward sees them:
\* lm.forward raised (line 384), "" or None came back (378), json.loads raised (381)
ContextFailures == {"raise", "empty", "unparsable"}

\* forward handing back the cleaned text when it does not decode
ContextAnalyzerModule_forward_raw(r) ==
    CASE r = "object"     -> "decoded"
      [] r = "nonobject"  -> "notamap"
      [] r = "unparsable" -> "notamap"
      [] OTHER            -> "default"

\* ContextAnalyzerModule.forward: the decoded value is returned as it is, every
\* failure gives the default map
ContextAnalyzerModule_forward(r) ==
    CASE r = "object"    -> "decoded"
      [] r = "nonobject" -> "notamap"
      [] OTHER           -> "default"

\* SummarizerAgent.run: extend() of a non-iterable raises and the fallback is dumped
Summarize(results) ==
    IF \A i \in 1..Len(results) : results[i].globals_ok THEN "merged" ELSE "fallback"

\* a project without its launch settings
OutputFilesNoLaunchSettings == {"MyWindowsService.csproj", "Program.cs", "Worker.cs",
                                "appsettings.json", "appsettings.Development.json"}

\* GeneratorModule._build_complete_project, lines 1218-1225: the keys of the mapping
OutputFiles == {"MyWindowsService.csproj", "Program.cs", "Worker.cs", "appsettings.json",
                "appsettings.Development.json", "Properties/launchSettings.json"}

\* GeneratorModule.forward: both the generator and its fallback template call
\* context_map.get(...), which raises when the context map is not a mapping
GeneratorRaises(cm) == cm = "notamap"

\* a reset that does not skip the ingestor
ResetEveryStage(s) == [a \in Agents |-> Idle]

\* MCP.run lines 1574-1576
ResetStages(s) == [a \in Agents |-> IF a # Ingestor THEN Idle ELSE s[a]]

\* a handler that marks only the stages that had started
FailStartedAgents(s) == [a \in Agents |-> IF s[a] # Idle THEN Failed ELSE s[a]]

\* a handler that puts every stage back to Idle
FailAgentsToIdle(s) == [a \in Agents |-> Idle]

\* MCP.run lines 1602-1603
FailAgents(s) == [a \in Agents |-> Failed]

\* the same with an await inside the packaging stage
SuspensionPointsWithPackaging == {"ingest_io", "fanout", "ctx_wait", "gen_wait", "p_fb_completed"}

\* awaits of the conversion task at which the event loop runs other callbacks:
\* UploadFile.read (1368), asyncio.gather / to_thread (1584, 1426), to_thread (1451, 1509)
SuspensionPoints == {"ingest_io", "fanout", "ctx_wait", "gen_wait"}

Suspended == /\ pc \in SuspensionPoints
             /\ pc = "fanout" => \A i \in 1..MAX_FILES : fileSt[i] # "new"

\* other callbacks of the event loop run only while the conversion task is not running
Interleavable == pc \in {"idle", "done"} \/ Suspended

\* put_nowait wakes the consumer blocked in queue.get(); its wake-up is queued before
\* whatever the loop is handed later (a thread's result, a timer, a new request), so an
\* open stream has read what was queued before any of those runs
ConsumerBehind == stream = "open" /\ queue # <<>>

Quiet == Interleavable /\ ~ConsumerBehind

----------------------------------------------------------------------------
(* What a submission hands to the ingestor.  Strings are sequences of tokens. *)

\* convert_vb6_to_dotnet line 1641 and the if / elif of IngestorAgent.run
Supplied(zip, link) ==
    IF zip /\ link THEN "both" ELSE IF zip THEN "zip" ELSE IF link THEN "link" ELSE "neither"

StartsWith(s, prefix) == Len(prefix) <= Len(s) /\ SubSeq(s, 1, Len(prefix)) = prefix

\* os.path.abspath(temp_dir)
TempDir == <<"/", "tmp", "/", "w">>

\* names an archive may list: a file of the project, an entry that climbs out of the
\* working directory, an entry in a sibling directory named like the working directory
EntryNames == {"Form1.frm", "../../evil", "../w2/evil"}

\* os.path.abspath(os.path.join(temp_dir, name)), line 1373
Resolve(name) ==
    CASE name = "Form1.frm"  -> TempDir \o <<"/", "Form1.frm">>
      [] name = "../../evil" -> <<"/", "evil">>
      [] name = "../w2/evil" -> <<"/", "tmp", "/", "w", "2", "/", "evil">>

\* line 1373: str.startswith
PathCheck(name) == StartsWith(Resolve(name), TempDir)

\* whether the resolved path lies in the working directory
Within(path, dir) == path = dir \/ StartsWith(path, dir \o <<"/">>)

Archives == {{"Form1.frm"}, {"Form1.frm", "../../evil"}, {"Form1.frm", "../w2/evil"}}
\* a file that zipfile.ZipFile does not accept (line 1378)
BadZip == {"<not a zip file>"}

\* line 118
ALLOWED_GITHUB_DOMAINS == {"github.com"}

References ==
    {<<"https://", "github.com", "/", "owner", "/", "repo">>,
     <<"https://", "evil.example", "/", "owner", "/", "repo">>,
     <<"https://", "evil.example", "/", "github.com", "/", "owner", "/", "repo">>,
     <<"https://", "github.com", "/", "owner", "/", "repo", "/", "tree">>}

Words == {"owner", "repo", "tree"}

Host(ref) == ref[2]

\* line 1382: any(domain in github_link ...), a substring test
DomainAllowed(ref) == \E i \in 1..Len(ref) : ref[i] \in ALLOWED_GITHUB_DOMAINS

\* the pattern of line 1385 searched for anywhere in the reference
ShapeFound(ref) ==
    \E k \in 1..Len(ref) :
        /\ Len(ref) = k + 4
        /\ ref[k] = "github.com"
        /\ ref[k + 1] = "/" /\ ref[k + 2] \in Words
        /\ ref[k + 3] = "/" /\ ref[k + 4] \in Words

\* line 1385: re.match(r'^https?://github\.com/[\w-]+/[\w-]+/?$', ...)
ShapeMatches(ref) ==
    /\ Len(ref) = 6
    /\ ref[1] \in {"http://", "https://"}
    /\ ref[2] = "github.com"
    /\ ref[3] = "/" /\ ref[4] \in Words
    /\ ref[5] = "/" /\ ref[6] \in Words

NoInput == [supplied |-> None, archive |-> {}, extracted |-> FALSE, ref |-> <<>>, fetched |-> FALSE]

----------------------------------------------------------------------------
\* a per-file task that holds no result yet
NoTaskResult == [keys |-> {}, empty |-> TRUE, globals_ok |-> TRUE]
NoResult == [kind |-> "none", status |-> 0, id |-> 0]
NoDownload == [id |-> 0, found |-> FALSE, status |-> 0]

\* cleanup_old_files, lines 153-162: every *.zip older than the retention window goes
cleanup_old_files(files, stale) == files \ stale

\* the module has been imported: the handler, the agents and the orchestrator exist
Imported ==
    /\ app \in {"server", "routes"}
    /\ state = [a \in Agents |-> Idle]
    /\ pc = "idle"
    /\ runs = 0
    /\ tempDir = FALSE
    /\ srcKind = None
    /\ given = NoInput
    /\ nFound = 0
    /\ fileSt = [i \in 1..MAX_FILES |-> "none"]
    /\ taskRes = [i \in 1..MAX_FILES |-> NoTaskResult]
    /\ taskIn = [i \in 1..MAX_FILES |-> None]
    /\ parsed_results = <<>>
    /\ context_map = None
    /\ yaml_summary = None
    /\ code_files = {}
    /\ convId = 0
    /\ writes = [i \in Ids |-> 0]
    /\ progress = 0
    /\ current_agent = None
    /\ queue = <<>>
    /\ waiting = FALSE
    /\ response = [status |-> 0, id |-> 0]
    /\ taskResult = NoResult
    /\ exc = 0
    /\ lastPipe = None
    /\ pipeSeen = {}
    /\ invoked = {}
    /\ raisedBy = None
    /\ lastDl = NoDownload
    /\ stream = "off"
    /\ emitted = <<>>
    /\ sent = <<>>
    /\ closed = None

\* no call of CustomAzureOpenAI.forward is being followed
LmIdle ==
    /\ lmPhase = "idle"
    /\ attempt = 0
    /\ failures = <<>>
    /\ waits = <<>>
    /\ lmValue = None

\* a first start: the output directory is empty when line 164 sweeps it
Init ==
    /\ Imported
    /\ store = cleanup_old_files({}, {})
    /\ old = {}
    /\ LmIdle

runLocals == <<srcKind, nFound, fileSt, taskRes, taskIn, parsed_results, context_map,
               yaml_summary, code_files, convId>>
outside   == <<app, runs, store, old, writes, lastDl, stream>>
caller    == <<waiting, response, taskResult>>

\* a new submission starts from fresh locals
FreshLocals ==
    /\ nFound' = 0
    /\ fileSt' = [i \in 1..MAX_FILES |-> "none"]
    /\ taskRes' = [i \in 1..MAX_FILES |-> NoTaskResult]
    /\ taskIn' = [i \in 1..MAX_FILES |-> None]
    /\ parsed_results' = <<>>
    /\ context_map' = None
    /\ yaml_summary' = None
    /\ code_files' = {}
    /\ convId' = 0
    /\ taskResult' = NoResult
    /\ exc' = 0
    /\ lastPipe' = None
    /\ pipeSeen' = {}
    /\ invoked' = {}
    /\ raisedBy' = None

----------------------------------------------------------------------------
(* POST /convert *)

\* convert_vb6_to_dotnet up to its await.  server.py: the log line, create_task,
\* wait_for.  routes.py: create_task, then mcp.CONVERSION_TIMEOUT_SECONDS, an
\* attribute MCP does not have: the handler answers 500 and the task it created
\* goes on without anyone awaiting it.
Convert(zip, link) ==
    /\ pc \in {"idle", "done"}
    /\ Quiet
    /\ ~waiting
    /\ runs < MaxRuns
    /\ Len(queue) <= MaxBacklog
    /\ FreshLocals
    /\ tempDir' = FALSE
    /\ UNCHANGED <<app, state, store, old, writes, lastDl, stream>>
    /\ IF ~zip /\ ~link
       THEN /\ response' = [status |-> 400, id |-> 0]
            /\ waiting' = FALSE
            /\ pc' = "idle"
            /\ srcKind' = None
            /\ given' = [NoInput EXCEPT !.supplied = "neither"]
            /\ runs' = runs
            /\ NoEmit
       ELSE /\ runs' = runs + 1
            /\ srcKind' = IF zip THEN "zip" ELSE "link"
            /\ \E names \in Archives \cup {BadZip}, github_link \in References :
                 given' = [NoInput EXCEPT !.supplied = Supplied(zip, link),
                                          !.archive = IF zip THEN names ELSE {},
                                          !.ref = IF zip THEN <<>> ELSE github_link]
            /\ pc' = "p_start"
            /\ IF app = "server"
               THEN /\ EmitsRun(<<LogEvent("pipeline")>>, runs + 1)
                    /\ waiting' = TRUE
                    /\ response' = [status |-> 0, id |-> 0]
               ELSE /\ NoEmit
                    /\ waiting' = FALSE
                    /\ response' = [status |-> 500, id |-> 0]
    /\ UNCHANGED lm

----------------------------------------------------------------------------
(* MCP.run *)

\* lines 1571-1572
RunBegin ==
    /\ pc = "p_start"
    /\ tempDir' = TRUE
    /\ Emits(<<PipelineEvent(Running)>>)
    /\ lastPipe' = Running
    /\ pc' = "p_reset"
    /\ UNCHANGED <<state, runLocals, given, outside, caller, exc, pipeSeen, invoked, raisedBy>>
    /\ UNCHANGED lm

\* lines 1574-1576
McpResetStages ==
    /\ pc = "p_reset"
    /\ state' = ResetStages(state)
    /\ Emits(<<StateEvent(Parser, Idle), StateEvent(Context, Idle), StateEvent(Summarizer, Idle),
               StateEvent(Generator, Idle), StateEvent(FileBuilder, Idle)>>)
    /\ pc' = "ingest"
    /\ UNCHANGED <<tempDir, runLocals, given, outside, caller, exc, lastPipe, pipeSeen, invoked, raisedBy>>
    /\ UNCHANGED lm

\* an exception leaving IngestorAgent.run: the specific Failed, then the Failed of
\* the outer except (1407-1409), then MCP.run's except clause
IngestorRaises(before) ==
    /\ state' = [state EXCEPT ![Ingestor] = Failed]
    /\ Emits(before \o <<StateEvent(Ingestor, Failed), StateEvent(Ingestor, Failed)>>)
    /\ exc' = 400
    /\ raisedBy' = Ingestor
    /\ pc' = "except"
    /\ UNCHANGED <<tempDir, runLocals, outside, caller, lastPipe, pipeSeen>>

\* IngestorAgent.run, lines 1359-1369 (archive) and 1381-1395 (repository link)
IngestStart ==
    /\ pc = "ingest"
    /\ invoked' = invoked \cup {Ingestor}
    /\ IF srcKind = "zip"
       THEN /\ UNCHANGED given
            /\ \E tooLarge \in BOOLEAN :
              IF tooLarge
              THEN IngestorRaises(<<StateEvent(Ingestor, Running)>>)
              ELSE /\ state' = [state EXCEPT ![Ingestor] = Running]
                   /\ Emits(<<StateEvent(Ingestor, Running), StateEvent(Ingestor, Running)>>)
                   /\ pc' = "ingest_io"
                   /\ UNCHANGED <<tempDir, runLocals, outside, caller, exc, lastPipe, pipeSeen, raisedBy>>
       ELSE IF ~DomainAllowed(given.ref) \/ ~ShapeMatches(given.ref)
              THEN /\ UNCHANGED given
                   /\ IngestorRaises(<<StateEvent(Ingestor, Running)>>)
              ELSE /\ given' = [given EXCEPT !.fetched = TRUE]
                   /\ \E cloned \in BOOLEAN :
                        IF ~cloned
                        THEN IngestorRaises(<<StateEvent(Ingestor, Running), StateEvent(Ingestor, Running)>>)
                        ELSE /\ state' = [state EXCEPT ![Ingestor] = Running]
                             /\ Emits(<<StateEvent(Ingestor, Running), StateEvent(Ingestor, Running),
                                        StateEvent(Ingestor, Running)>>)
                             /\ pc' = "ingest_scan"
                             /\ UNCHANGED <<tempDir, runLocals, outside, caller, exc, lastPipe,
                                            pipeSeen, raisedBy>>
    /\ UNCHANGED lm

\* IngestorAgent.run, lines 1370-1380: the archive is opened, every name is checked,
\* and only then extractall runs
IngestExtract ==
    /\ pc = "ingest_io"
    /\ Quiet
    /\ UNCHANGED invoked
    /\ IF given.archive = BadZip \/ \E name \in given.archive : ~PathCheck(name)
       THEN /\ UNCHANGED given
            /\ IngestorRaises(<<>>)
       ELSE /\ given' = [given EXCEPT !.extracted = TRUE]
            /\ Emits(<<StateEvent(Ingestor, Running)>>)
            /\ pc' = "ingest_scan"
            /\ UNCHANGED <<state, tempDir, runLocals, outside, caller, exc, lastPipe,
                           pipeSeen, raisedBy>>
    /\ UNCHANGED lm

\* IngestorAgent.run, lines 1396-1406: the walk over temp_dir
IngestScan ==
    /\ pc = "ingest_scan"
    /\ UNCHANGED invoked
    /\ \E n \in 0..MaxFound :
         IF n = 0
         THEN /\ UNCHANGED given
              /\ IngestorRaises(<<>>)
         ELSE /\ nFound' = n
              /\ srcKind' = None
              /\ given' = NoInput
              /\ state' = [state EXCEPT ![Ingestor] = Completed]
              /\ Emits(<<StateEvent(Ingestor, Completed)>>)
              /\ pc' = "p_processing"
              /\ UNCHANGED <<tempDir, fileSt, taskRes, taskIn, parsed_results, context_map,
                             yaml_summary, code_files, convId, outside, caller, exc, lastPipe,
                             pipeSeen, raisedBy>>
    /\ UNCHANGED lm

\* line 1578
McpProcessing ==
    /\ pc = "p_processing"
    /\ Emits(<<PipelineEvent(Running)>>)
    /\ lastPipe' = Running
    /\ pc' = "p_ingestor_completed"
    /\ UNCHANGED <<state, tempDir, runLocals, given, outside, caller, exc, pipeSeen, invoked, raisedBy>>
    /\ UNCHANGED lm

\* the script with lines 1585 and 1586 swapped
McpScriptNextBeforeDone ==
    [p_ingestor_completed |-> <<Ingestor, Completed, "p_parser_running">>,
     p_parser_completed   |-> <<Context, Running, "p_ctx_running">>,
     p_ctx_running        |-> <<Parser, Completed, "ctx_run">>,
     p_ctx_completed      |-> <<Context, Completed, "p_sum_running">>,
     p_sum_running        |-> <<Summarizer, Running, "sum_run">>,
     p_sum_completed      |-> <<Summarizer, Completed, "p_gen_running">>,
     p_gen_running        |-> <<Generator, Running, "gen_run">>,
     p_gen_completed      |-> <<Generator, Completed, "p_fb_running">>,
     p_fb_running         |-> <<FileBuilder, Running, "fb_run">>,
     p_fb_completed       |-> <<FileBuilder, Completed, "p_pipeline_completed">>]

\* the orchestrator's own set_state calls, lines 1579-1597: position, agent, state, next
McpScript ==
    [p_ingestor_completed |-> <<Ingestor, Completed, "p_parser_running">>,
     p_parser_completed   |-> <<Parser, Completed, "p_ctx_running">>,
     p_ctx_running        |-> <<Context, Running, "ctx_run">>,
     p_ctx_completed      |-> <<Context, Completed, "p_sum_running">>,
     p_sum_running        |-> <<Summarizer, Running, "sum_run">>,
     p_sum_completed      |-> <<Summarizer, Completed, "p_gen_running">>,
     p_gen_running        |-> <<Generator, Running, "gen_run">>,
     p_gen_completed      |-> <<Generator, Completed, "p_fb_running">>,
     p_fb_running         |-> <<FileBuilder, Running, "fb_run">>,
     p_fb_completed       |-> <<FileBuilder, Completed, "p_pipeline_completed">>]

\* an orchestrator that leaves a stage Failed when the stage said so itself
McpSetStateKeepsFailed ==
    /\ pc \in DOMAIN McpScript
    /\ LET step == McpScript[pc]
       IN /\ state' = IF state[step[1]] = Failed THEN state
                      ELSE [state EXCEPT ![step[1]] = step[2]]
          /\ Emits(<<StateEvent(step[1], step[2])>>)
          /\ pc' = step[3]
    /\ UNCHANGED <<tempDir, runLocals, given, outside, caller, exc, lastPipe, pipeSeen, invoked, raisedBy>>
    /\ UNCHANGED lm

McpSetState ==
    /\ pc \in DOMAIN McpScript
    /\ LET step == McpScript[pc]
       IN /\ state' = [state EXCEPT ![step[1]] = step[2]]
          /\ Emits(<<StateEvent(step[1], step[2])>>)
          /\ pc' = step[3]
    /\ UNCHANGED <<tempDir, runLocals, given, outside, caller, exc, lastPipe, pipeSeen, invoked, raisedBy>>
    /\ UNCHANGED lm

\* lines 1580-1584: the parser is set Running, the list is cut to MAX_FILES and one
\* ParserAgent.run task per file is handed to asyncio.gather
McpParserRunning ==
    /\ pc = "p_parser_running"
    /\ state' = [state EXCEPT ![Parser] = Running]
    /\ Emits(<<StateEvent(Parser, Running)>> \o
             (IF nFound > MAX_FILES THEN <<LogEvent("pipeline")>> ELSE <<>>))
    /\ fileSt' = [i \in 1..MAX_FILES |-> IF i <= FilesToProcess(nFound) THEN "new" ELSE "none"]
    /\ pc' = "fanout"
    /\ UNCHANGED <<tempDir, srcKind, given, nFound, taskRes, taskIn, parsed_results, context_map,
                   yaml_summary, code_files, convId, outside, caller, exc, lastPipe, pipeSeen,
                   invoked, raisedBy>>
    /\ UNCHANGED lm

\* ParserAgent.run, lines 1417-1426, the first step of the task of file i: the tasks
\* start in list order, each runs up to its to_thread (or to its except clause when
\* the file cannot be read)
ParserTaskStart(i) ==
    /\ pc = "fanout"
    /\ fileSt[i] = "new"
    /\ \A j \in 1..(i - 1) : fileSt[j] # "new"
    /\ invoked' = invoked \cup {Parser}
    /\ \E readError \in BOOLEAN :
         IF readError
         THEN /\ state' = [state EXCEPT ![Parser] = Failed]
              /\ Emits(<<StateEvent(Parser, Running), StateEvent(Parser, Failed)>>)
              /\ fileSt' = [fileSt EXCEPT ![i] = "done"]
              /\ taskRes' = [taskRes EXCEPT ![i] = EmptyResult]
              /\ taskIn' = [taskIn EXCEPT ![i] = "readerror"]
         ELSE /\ state' = [state EXCEPT ![Parser] = Running]
              /\ Emits(<<StateEvent(Parser, Running), LogEvent("parser")>>)
              /\ fileSt' = [fileSt EXCEPT ![i] = "waiting"]
              /\ UNCHANGED <<taskRes, taskIn>>
    /\ UNCHANGED <<pc, tempDir, srcKind, given, nFound, parsed_results, context_map, yaml_summary,
                   code_files, convId, outside, caller, exc, lastPipe, pipeSeen, raisedBy>>
    /\ UNCHANGED lm

\* ParserAgent.run, lines 1426-1438, after ParserModule.forward came back from its thread
ParserTaskFinish(i, r) ==
    /\ pc = "fanout"
    /\ fileSt[i] = "waiting"
    /\ Quiet
    /\ state' = [state EXCEPT ![Parser] = Completed]
    /\ Emits(<<LogEvent("parser"), StateEvent(Parser, Completed)>>)
    /\ fileSt' = [fileSt EXCEPT ![i] = "done"]
    /\ taskRes' = [taskRes EXCEPT ![i] = ParserAgent_result(ParserModule_forward(r))]
    /\ taskIn' = [taskIn EXCEPT ![i] = r]
    /\ UNCHANGED <<pc, tempDir, srcKind, given, nFound, parsed_results, context_map, yaml_summary,
                   code_files, convId, outside, caller, exc, lastPipe, pipeSeen, invoked, raisedBy>>
    /\ UNCHANGED lm

\* line 1584: gather returns the results in list order
GatherDone ==
    /\ pc = "fanout"
    /\ Quiet
    /\ GatherReady(fileSt, nFound)
    /\ parsed_results' = [i \in 1..FilesToProcess(nFound) |-> taskRes[i]]
    /\ taskRes' = [i \in 1..MAX_FILES |-> NoTaskResult]
    /\ taskIn' = [i \in 1..MAX_FILES |-> None]
    /\ nFound' = 0
    /\ pc' = "p_parser_completed"
    /\ NoEmit
    /\ UNCHANGED <<state, tempDir, srcKind, given, fileSt, context_map, yaml_summary, code_files,
                   convId, outside, caller, exc, lastPipe, pipeSeen, invoked, raisedBy>>
    /\ UNCHANGED lm

\* ContextAnalyzerAgent.run, lines 1449-1451
ContextStart ==
    /\ pc = "ctx_run"
    /\ invoked' = invoked \cup {Context}
    /\ state' = [state EXCEPT ![Context] = Running]
    /\ Emits(<<StateEvent(Context, Running), LogEvent("context_analyzer")>>)
    /\ pc' = "ctx_wait"
    /\ UNCHANGED <<tempDir, runLocals, given, outside, caller, exc, lastPipe, pipeSeen, raisedBy>>
    /\ UNCHANGED lm

\* ContextAnalyzerAgent.run, lines 1451-1453: forward absorbs every failure itself
ContextFinish(r) ==
    /\ pc = "ctx_wait"
    /\ Quiet
    /\ context_map' = ContextAnalyzerModule_forward(r)
    /\ state' = [state EXCEPT ![Context] = Completed]
    /\ Emits(<<LogEvent("context_analyzer"), StateEvent(Context, Completed)>>)
    /\ pc' = "p_ctx_completed"
    /\ UNCHANGED <<tempDir, srcKind, given, nFound, fileSt, taskRes, taskIn, parsed_results,
                   yaml_summary, code_files, convId, outside, caller, exc, lastPipe, pipeSeen,
                   invoked, raisedBy>>
    /\ UNCHANGED lm

\* SummarizerAgent.run, lines 1463-1499: no await inside
SummarizerRun ==
    /\ pc = "sum_run"
    /\ invoked' = invoked \cup {Summarizer}
    /\ yaml_summary' = Summarize(parsed_results)
    /\ LET end == IF Summarize(parsed_results) = "merged" THEN Completed ELSE Failed
       IN /\ state' = [state EXCEPT ![Summarizer] = end]
          /\ Emits(<<StateEvent(Summarizer, Running), StateEvent(Summarizer, end)>>)
    /\ parsed_results' = <<>>
    /\ fileSt' = [i \in 1..MAX_FILES |-> "none"]
    /\ pc' = "p_sum_completed"
    /\ UNCHANGED <<tempDir, srcKind, given, nFound, taskRes, taskIn, context_map,
                   code_files, convId, outside, caller, exc, lastPipe, pipeSeen, raisedBy>>
    /\ UNCHANGED lm

\* GeneratorAgent.run, lines 1507-1509
GeneratorStart ==
    /\ pc = "gen_run"
    /\ invoked' = invoked \cup {Generator}
    /\ state' = [state EXCEPT ![Generator] = Running]
    /\ Emits(<<StateEvent(Generator, Running), LogEvent("generator")>>)
    /\ pc' = "gen_wait"
    /\ UNCHANGED <<tempDir, runLocals, given, outside, caller, exc, lastPipe, pipeSeen, raisedBy>>
    /\ UNCHANGED lm

\* GeneratorAgent.run, lines 1509-1514
GeneratorFinish ==
    /\ pc = "gen_wait"
    /\ Quiet
    /\ IF GeneratorRaises(context_map)
       THEN /\ state' = [state EXCEPT ![Generator] = Failed]
            /\ Emits(<<LogEvent("generator"), StateEvent(Generator, Failed)>>)
            /\ exc' = 500
            /\ raisedBy' = Generator
            /\ pc' = "except"
            /\ UNCHANGED code_files
       ELSE /\ state' = [state EXCEPT ![Generator] = Completed]
            /\ Emits(<<LogEvent("generator"), StateEvent(Generator, Completed)>>)
            /\ code_files' = OutputFiles
            /\ pc' = "p_gen_completed"
            /\ UNCHANGED <<exc, raisedBy>>
    /\ context_map' = None
    /\ yaml_summary' = None
    /\ UNCHANGED <<tempDir, srcKind, given, nFound, fileSt, taskRes, taskIn, parsed_results,
                   convId, outside, caller, lastPipe, pipeSeen, invoked>>
    /\ UNCHANGED lm

\* FileBuilderAgent.run, lines 1521-1550: no await that suspends; conversion_id is a
\* fresh uuid4, here the number of the run.  An OSError while the project or the
\* archive is written reaches the except clause, which removes the archive.
FileBuilderRun ==
    /\ pc = "fb_run"
    /\ invoked' = invoked \cup {FileBuilder}
    /\ convId' = runs
    /\ \E o \in {"ok", "oserror"} :
         IF o = "ok"
         THEN /\ store' = store \cup {runs}
              /\ writes' = [writes EXCEPT ![runs] = @ + 1]
              /\ state' = [state EXCEPT ![FileBuilder] = Completed]
              /\ Emits(<<StateEvent(FileBuilder, Running), StateEvent(FileBuilder, Completed)>>)
              /\ pc' = "p_fb_completed"
              /\ UNCHANGED <<exc, raisedBy>>
         ELSE /\ store' = store \ {runs}
              /\ \E opened \in BOOLEAN : writes' = [writes EXCEPT ![runs] = IF opened THEN @ + 1 ELSE @]
              /\ state' = [state EXCEPT ![FileBuilder] = Failed]
              /\ Emits(<<StateEvent(FileBuilder, Running), StateEvent(FileBuilder, Failed)>>)
              /\ exc' = 500
              /\ raisedBy' = FileBuilder
              /\ pc' = "except"
    /\ UNCHANGED <<tempDir, srcKind, given, nFound, fileSt, taskRes, taskIn, parsed_results, context_map,
                   yaml_summary, code_files, app, runs, old, lastDl, stream, caller, lastPipe, pipeSeen>>
    /\ UNCHANGED lm

\* line 1598
McpPipelineCompleted ==
    /\ pc = "p_pipeline_completed"
    /\ Emits(<<PipelineEvent(Completed)>>)
    /\ lastPipe' = Completed
    /\ pipeSeen' = pipeSeen \cup {Completed}
    /\ pc' = "p_return"
    /\ UNCHANGED <<state, tempDir, runLocals, given, outside, caller, exc, invoked, raisedBy>>
    /\ UNCHANGED lm

\* line 1599, and the end of the with block
RunReturn ==
    /\ pc = "p_return"
    /\ tempDir' = FALSE
    /\ taskResult' = [kind |-> "value", status |-> 0, id |-> convId]
    /\ pc' = "done"
    /\ NoEmit
    /\ UNCHANGED <<state, runLocals, given, outside, waiting, response, exc, lastPipe, pipeSeen, invoked, raisedBy>>
    /\ UNCHANGED lm

\* line 1601
McpPipelineFailed ==
    /\ pc = "except"
    /\ Emits(<<PipelineEvent(Failed)>>)
    /\ lastPipe' = Failed
    /\ pipeSeen' = pipeSeen \cup {Failed}
    /\ pc' = "p_fail_agents"
    /\ UNCHANGED <<state, tempDir, runLocals, given, outside, caller, exc, invoked, raisedBy>>
    /\ UNCHANGED lm

\* lines 1602-1603
McpFailAgents ==
    /\ pc = "p_fail_agents"
    /\ state' = FailAgents(state)
    /\ Emits([i \in 1..Len(agents) |-> StateEvent(agents[i], Failed)])
    /\ pc' = "p_raise"
    /\ UNCHANGED <<tempDir, runLocals, given, outside, caller, exc, lastPipe, pipeSeen, invoked, raisedBy>>
    /\ UNCHANGED lm

\* line 1604, and the end of the with block
RunRaise ==
    /\ pc = "p_raise"
    /\ tempDir' = FALSE
    /\ taskResult' = [kind |-> "error", status |-> exc, id |-> 0]
    /\ pc' = "done"
    /\ NoEmit
    /\ UNCHANGED <<state, runLocals, given, outside, waiting, response, exc, lastPipe, pipeSeen, invoked, raisedBy>>
    /\ UNCHANGED lm

----------------------------------------------------------------------------
(* POST /convert, after the await (server.py) *)

\* lines 1647-1659 and 1664-1665: the task ended before the timeout
ConvertReturn ==
    /\ app = "server"
    /\ waiting
    /\ pc = "done"
    /\ Quiet
    /\ waiting' = FALSE
    /\ IF taskResult.kind = "value"
       THEN /\ store' = store \cup {taskResult.id}
            /\ old' = old \ {taskResult.id}
            /\ writes' = [writes EXCEPT ![taskResult.id] = @ + 1]
            /\ Emits(<<LogEvent("pipeline")>>)
            /\ response' = [status |-> 200, id |-> taskResult.id]
       ELSE /\ NoEmit
            /\ response' = [status |-> taskResult.status, id |-> 0]
            /\ UNCHANGED <<store, old, writes>>
    /\ UNCHANGED <<app, state, pc, runs, tempDir, runLocals, given, taskResult, exc, lastPipe, pipeSeen,
                   invoked, raisedBy, lastDl, stream>>
    /\ UNCHANGED lm

\* lines 1647 and 1660-1663: wait_for's timer fires while the task is suspended; the
\* task is cancelled, CancelledError (a BaseException) passes every `except
\* Exception` of the agents and of MCP.run, and only the with block unwinds
Timeout ==
    /\ app = "server"
    /\ waiting
    /\ Suspended
    /\ Quiet
    /\ waiting' = FALSE
    /\ tempDir' = FALSE
    /\ taskResult' = [kind |-> "cancelled", status |-> 0, id |-> 0]
    /\ pc' = "done"
    /\ Emits(<<LogEvent("pipeline")>>)
    /\ response' = [status |-> TimeoutStatus, id |-> 0]
    /\ UNCHANGED <<state, runLocals, given, outside, exc, lastPipe, pipeSeen, invoked, raisedBy>>
    /\ UNCHANGED lm

----------------------------------------------------------------------------
(* GET /download/{conversion_id} *)

\* download_converted_file: 404 when the file is missing; otherwise the response is
\* built, the finally clause unlinks the file and then reads mcp.logger, an attribute
\* MCP does not have: the AttributeError raised in the finally clause (and again in
\* its except clause) replaces the return, and the request answers 500
DownloadStatus(found) == IF found THEN 500 ELSE 404

\* a handler that answers and leaves the unlink to a later step
DownloadWithoutUnlink(id) ==
    /\ Quiet
    /\ id <= runs
    /\ lastDl' = [id |-> id, found |-> id \in store, status |-> DownloadStatus(id \in store)]
    /\ store' = store
    /\ old' = old
    /\ NoEmit
    /\ UNCHANGED <<app, state, pc, runs, tempDir, runLocals, given, writes, caller, exc, lastPipe,
                   pipeSeen, invoked, raisedBy, stream>>
    /\ UNCHANGED lm

Download(id) ==
    /\ Quiet
    /\ id <= runs
    /\ lastDl' = [id |-> id, found |-> id \in store, status |-> DownloadStatus(id \in store)]
    /\ store' = store \ {id}
    /\ old' = old \ {id}
    /\ NoEmit
    /\ UNCHANGED <<app, state, pc, runs, tempDir, runLocals, given, writes, caller, exc, lastPipe,
                   pipeSeen, invoked, raisedBy, stream>>
    /\ UNCHANGED lm

----------------------------------------------------------------------------
(* GET /stream *)

StreamConnect ==
    /\ Quiet
    /\ stream = "off"
    /\ stream' = "open"
    /\ NoEmit
    /\ UNCHANGED <<app, state, pc, runs, tempDir, runLocals, given, store, old, writes, lastDl, caller, exc,
                   lastPipe, pipeSeen, invoked, raisedBy>>
    /\ UNCHANGED lm

\* event_generator, line 1718: the loop ends on a pipeline Completed / Failed
StreamEnds(ev) == ev.stage = "pipeline" /\ ev.state \in {Completed, Failed}

\* what one wake-up of the consumer reads: the queued entries up to and including
\* the first one that ends the loop
RECURSIVE ReadUpTo(_)
ReadUpTo(q) ==
    IF q = <<>> THEN <<>>
    ELSE IF StreamEnds(Head(q)) THEN <<Head(q)>>
    ELSE <<Head(q)>> \o ReadUpTo(Tail(q))

\* event_generator, lines 1701-1719
StreamRead ==
    /\ Interleavable
    /\ ConsumerBehind
    /\ LET got == ReadUpTo(queue)
       IN /\ sent' = got
          /\ queue' = SubSeq(queue, Len(got) + 1, Len(queue))
          /\ IF StreamEnds(got[Len(got)])
             THEN stream' = "off" /\ closed' = "finished"
             ELSE stream' = "open" /\ closed' = None
    /\ emitted' = <<>>
    /\ UNCHANGED <<app, state, pc, runs, tempDir, runLocals, given, store, old, writes, lastDl, caller, exc,
                   lastPipe, pipeSeen, invoked, raisedBy, progress, current_agent>>
    /\ UNCHANGED lm

\* event_generator, lines 1720-1728: 30 s without an event; building the ping reads
\* mcp.sse_handler, an attribute MCP does not have, and the generator dies
StreamIdle ==
    /\ Interleavable
    /\ stream = "open"
    /\ queue = <<>>
    /\ stream' = "off"
    /\ closed' = "error"
    /\ sent' = <<>>
    /\ emitted' = <<>>
    /\ UNCHANGED <<app, state, pc, runs, tempDir, runLocals, given, store, old, writes, lastDl, caller, exc,
                   lastPipe, pipeSeen, invoked, raisedBy, progress, current_agent, queue>>
    /\ UNCHANGED lm

----------------------------------------------------------------------------
Next ==
    \/ \E zip, link \in BOOLEAN : Convert(zip, link)
    \/ RunBegin
    \/ McpResetStages
    \/ IngestStart
    \/ IngestExtract
    \/ IngestScan
    \/ McpProcessing
    \/ McpSetState
    \/ McpParserRunning
    \/ \E i \in 1..MAX_FILES : ParserTaskStart(i)
    \/ \E i \in 1..MAX_FILES, r \in TransformOutcomes : ParserTaskFinish(i, r)
    \/ GatherDone
    \/ ContextStart
    \/ \E r \in ContextOutcomes : ContextFinish(r)
    \/ SummarizerRun
    \/ GeneratorStart
    \/ GeneratorFinish
    \/ FileBuilderRun
    \/ McpPipelineCompleted
    \/ RunReturn
    \/ McpPipelineFailed
    \/ McpFailAgents
    \/ RunRaise
    \/ ConvertReturn
    \/ Timeout
    \/ \E id \in Ids : Download(id)
    \/ StreamConnect
    \/ StreamRead
    \/ StreamIdle

Spec == Init /\ [][Next]_vars

----------------------------------------------------------------------------
(* The service over a long time: files age, and the process may have been started  *)
(* on an output directory that an earlier process left files in.                   *)

\* the identifier of a file left by an earlier process
Leftover == 0

\* a restart: line 164 sweeps what the earlier process left
InitRestarted ==
    /\ Imported
    /\ \E files \in SUBSET {Leftover} : \E stale \in SUBSET files :
          store = cleanup_old_files(files, stale)
    /\ old = {}
    /\ LmIdle

\* FILE_EXPIRATION_SECONDS pass since the file of id was last written
Expire(id) ==
    /\ Quiet
    /\ id \in store \ old
    /\ old' = old \cup {id}
    /\ NoEmit
    /\ UNCHANGED <<app, state, pc, runs, tempDir, runLocals, given, store, writes, lastDl, stream,
                   caller, exc, lastPipe, pipeSeen, invoked, raisedBy>>
    /\ UNCHANGED lm

NextAged ==
    \/ Next
    \/ Download(Leftover)
    \/ \E id \in Ids \cup {Leftover} : Expire(id)

AgedSpec == InitRestarted /\ [][NextAged]_vars

----------------------------------------------------------------------------
(* CustomAzureOpenAI.forward, lines 194-214: one call of the text transform, as the  *)
(* thread of a stage runs it.  The function reads nothing of the pipeline; its log   *)
(* records go through the same handler.                                              *)

max_retries == 5    \* line 196
BackoffCap  == 30   \* line 212

RECURSIVE Pow2(_)
Pow2(k) == IF k = 0 THEN 1 ELSE 2 * Pow2(k - 1)

\* a pause that grows by one second per attempt
BackoffLinear(k) == Min(k + 1, BackoffCap)

\* line 212: min(2 ** attempt, 30)
Backoff(k) == Min(Pow2(k), BackoffCap)

\* what chat.completions.create / response.choices[0] can raise
Errors == {"APIError", "IndexError"}

\* what message.content can hold when the call succeeds
Contents == {"{...}", ""}

\* forward has been called: line 196 and the first pass of the for statement
LmCalled ==
    /\ lmPhase = "try"
    /\ attempt = 0
    /\ failures = <<>>
    /\ waits = <<>>
    /\ lmValue = None

InitForward ==
    /\ Imported
    /\ store = cleanup_old_files({}, {})
    /\ old = {}
    /\ LmCalled

\* the pipeline's own variables, which forward does not touch
pipeline == <<state, pc, tempDir, runLocals, given, outside, caller, exc, lastPipe, pipeSeen,
              invoked, raisedBy>>

\* lines 198-207: the call succeeds and forward returns the content
LmReturn(content) ==
    /\ lmPhase = "try"
    /\ lmValue' = content
    /\ lmPhase' = "returned"
    /\ NoEmit
    /\ UNCHANGED <<attempt, failures, waits, pipeline>>

\* lines 208-213: the call raises; the error is logged, and the last attempt re-raises
LmFail(e) ==
    /\ lmPhase = "try"
    /\ failures' = Append(failures, e)
    /\ Emits(<<LogEvent("ai_processing")>>)
    /\ lmPhase' = IF attempt < max_retries - 1 THEN "sleep" ELSE "raised"
    /\ UNCHANGED <<attempt, waits, lmValue, pipeline>>

\* line 212, and the next pass of the for statement
LmSleep ==
    /\ lmPhase = "sleep"
    /\ waits' = Append(waits, Backoff(attempt))
    /\ attempt' = attempt + 1
    /\ lmPhase' = "try"
    /\ NoEmit
    /\ UNCHANGED <<failures, lmValue, pipeline>>

NextForward ==
    \/ \E content \in Contents : LmReturn(content)
    \/ \E e \in Errors : LmFail(e)
    \/ LmSleep

ForwardSpec == InitForward /\ [][NextForward]_vars

----------------------------------------------------------------------------
(* Properties *)

StagesUpTo(a) == {agents[i] : i \in 1..IndexOf(a)}
Previous(a) == agents[IndexOf(a) - 1]
Settled == \A i \in 1..MAX_FILES : fileSt[i] \notin {"new", "waiting"}

\* C1: when a stage raises out of MCP.run, then at the end of the run all six agents
\* are recorded Failed (also the ones never started), no stage after the raising one
\* was invoked, and the error reaches the caller with the stage's status.
C1_FailureMarksEveryStageFailed ==
    taskResult.kind = "error" =>
        /\ \A a \in Agents : state[a] = Failed
        /\ raisedBy \in Agents
        /\ invoked = StagesUpTo(raisedBy)
        /\ taskResult.status = exc
        /\ exc \in {400, 500}
        /\ (app = "server" /\ ~waiting) => response = [status |-> exc, id |-> 0]

C1_Witness ==
    /\ taskResult.kind = "error"
    /\ raisedBy = Generator
    /\ app = "server"
    /\ ~waiting

\* C2 (as claimed): a retrieval that finds the artifact answers with its content
\* (200), a retrieval that does not find it answers not-found (404).
C2_RetrievalYieldsContentOnce ==
    lastDl.id # 0 => lastDl.status = (IF lastDl.found THEN 200 ELSE 404)

\* C3 (as claimed): once a submission is over, either every stage completed and the
\* caller holds the artifact identifier, or the run failed and the store holds no
\* artifact of that run.
C3_NoPartialSuccess ==
    (pc = "done" /\ ~waiting) =>
        \/ /\ taskResult.kind = "value"
           /\ \A a \in Agents : state[a] = Completed
           /\ response = [status |-> 200, id |-> taskResult.id]
        \/ /\ taskResult.kind # "value"
           /\ runs \notin store

\* C4 (as claimed): a run that is over emitted Completed or Failed as its last
\* pipeline-level state, Completed exactly when it returned an identifier, and
\* never both.
C4_TerminalPipelineState ==
    pc = "done" =>
        /\ lastPipe \in {Completed, Failed}
        /\ lastPipe = Completed <=> taskResult.kind = "value"
        /\ pipeSeen # {Completed, Failed}

\* C5 (as claimed): a run that is over, by success, failure or timeout, has put a
\* pipeline-level Completed or Failed event on the queue.
C5_TerminalEventEmitted ==
    pc = "done" => pipeSeen # {}

C7_OneStageAtATime ==
    /\ [](Cardinality({a \in Agents : state[a] = Running}) <= 1)
    /\ [][\A a \in Agents \ {Ingestor} :
            /\ (state[a] # Running /\ state'[a] = Running) => state[Previous(a)] = Completed
            /\ (a \notin invoked /\ a \in invoked') => state[a] = Running]_vars

C7_Witness ==
    /\ pc = "ctx_wait"
    /\ state[Context] = Running
    /\ state[Parser] = Completed
    /\ invoked = {Ingestor, Parser, Context}

\* C8: the context analyzer is recorded Running, and is invoked, only when no
\* per-file task is still unstarted or waiting, and what it receives holds one
\* result for every file task that was started.
C8_FanInBarrier ==
    /\ state[Context] = Running => Settled
    /\ Context \in invoked => Settled
    /\ pc \in {"p_parser_completed", "p_ctx_running", "ctx_run", "ctx_wait"} =>
          /\ Len(parsed_results) = Cardinality({i \in 1..MAX_FILES : fileSt[i] # "none"})
          /\ Len(parsed_results) >= 1
          /\ \A i \in 1..Len(parsed_results) : parsed_results[i] # NoTaskResult

C8_Witness ==
    /\ pc = "ctx_wait"
    /\ Len(parsed_results) = MAX_FILES
    /\ parsed_results[1] = EmptyResult
    /\ parsed_results[2] # EmptyResult

\* C9 (as claimed): a stage recorded Completed or Failed changes only by the reset
\* at the start of a run, to Idle.
C9_TerminalStatesStay ==
    [][\A a \in Agents :
          (state[a] \in {Completed, Failed} /\ state'[a] # state[a])
             => (pc = "p_reset" /\ state'[a] = Idle)]_vars

\* C9 (amended): a stage leaves Completed or Failed for Idle only in the reset at
\* the start of a run, and a stage recorded Completed is set Running again only by
\* the ingestor's start in a later run.
C9_IdleOnlyThroughReset ==
    [][\A a \in Agents :
          /\ (state[a] # Idle /\ state'[a] = Idle) => pc = "p_reset"
          /\ (state[a] = Completed /\ state'[a] = Running) => (a = Ingestor /\ pc = "ingest")]_vars

C9_Witness ==
    /\ pc = "ingest"
    /\ runs = 2
    /\ state[Parser] = Idle
    /\ state[Ingestor] = Completed

\* C10: after a timeout the caller holds status 504 and no identifier, the working
\* directory is gone, and the run wrote no artifact.
C10_TimeoutOutcome ==
    taskResult.kind = "cancelled" =>
        /\ response = [status |-> 504, id |-> 0]
        /\ ~tempDir
        /\ convId = 0
        /\ runs \notin store
        /\ writes[runs] = 0

C10_Witness ==
    /\ taskResult.kind = "cancelled"
    /\ invoked = {Ingestor, Parser, Context, Summarizer, Generator}

\* C12 (as claimed): an identifier whose artifact was written and is gone from the
\* store does not come back into the store.
C12_DeletedStaysDeleted ==
    [][\A id \in Ids : (writes[id] > 0 /\ id \notin store) => id \notin store']_vars

\* C13: a retrieval checks, answers and deletes in one step: it finds the artifact
\* exactly when the file is there, leaves no file behind for the next retrieval,
\* and answers not-found, touching nothing, when the file is not there.
C13_RetrievalIsOneStep ==
    [][lastDl' # lastDl =>
          /\ lastDl'.found <=> lastDl'.id \in store
          /\ lastDl'.id \notin store'
          /\ store' = store \ {lastDl'.id}
          /\ ~lastDl'.found => (lastDl'.status = 404 /\ store' = store)]_vars

C13_Witness ==
    /\ lastDl = [id |-> 1, found |-> FALSE, status |-> 404]
    /\ writes[1] > 0
    /\ taskResult.kind = "value"
    /\ runs = 1
    /\ 1 \notin store

\* C14 (as claimed): the artifact of an identifier is opened for writing at most
\* once, and exactly once when the identifier was returned to the caller.
C14_WrittenOncePerIdentifier ==
    /\ \A id \in Ids : writes[id] <= 1
    /\ response.id # 0 => writes[response.id] = 1

\* C15: the progress of every event lies in 0..100; the events of one step carry
\* non-decreasing progress, the last of them the handler's; and no step lowers the
\* handler's progress, so the first event of a step is not below the events before it.
C15_ProgressMonotone ==
    /\ [](/\ progress \in 0..100
          /\ \A i \in 1..Len(emitted) :
                /\ emitted[i].progress \in 0..100
                /\ i > 1 => emitted[i - 1].progress <= emitted[i].progress
          /\ emitted # <<>> => emitted[Len(emitted)].progress = progress)
    /\ [][/\ progress <= progress'
          /\ emitted' # <<>> => progress <= emitted'[1].progress]_vars

C15_Witness ==
    /\ pc = "fanout"
    /\ \A i \in 1..MAX_FILES : fileSt[i] = "done"
    /\ emitted # <<>>
    /\ emitted[Len(emitted)].state = Completed
    /\ emitted[Len(emitted)].progress = 64

\* C16 (as claimed): the stream is closed only by reading a pipeline-level
\* Completed or Failed event, never by an idle period.
C16_StreamEndsOnlyOnTerminalEvent ==
    closed # None => (closed = "finished" /\ sent # <<>> /\ StreamEnds(sent[Len(sent)]))

\* C20: whenever the generator has returned, the mapping it returned holds the six
\* mandated file names; when it raised, it returned nothing and the run failed.
C20_ProjectIsComplete ==
    /\ pc \in {"p_gen_completed", "p_fb_running", "fb_run"} =>
          /\ {"MyWindowsService.csproj", "Program.cs", "Worker.cs", "appsettings.json",
              "appsettings.Development.json", "Properties/launchSettings.json"} \subseteq code_files
          /\ state[Generator] = Completed
    /\ raisedBy = Generator => (code_files = {} /\ exc = 500 /\ lastPipe # Completed)
    /\ code_files # {} => Generator \in invoked

C20_Witness ==
    /\ pc = "p_gen_completed"
    /\ code_files = OutputFiles
    /\ progress > 0

\* whether an archive lists a name that resolves outside the working directory
Escapes(names) == names # BadZip /\ \E name \in names : ~Within(Resolve(name), TempDir)

\* whether a reference has the shape scheme://host/owner/repo
StrictShape(ref) ==
    /\ Len(ref) = 6
    /\ ref[1] \in {"http://", "https://"}
    /\ ref[3] = "/" /\ ref[4] \in Words
    /\ ref[5] = "/" /\ ref[6] \in Words

\* C17 (as claimed): a submission with neither source is answered 400 and starts no
\* run; a submission with both sources never gets its ingestor called.
C17_ExactlyOneSource ==
    /\ given.supplied = "neither" => (response.status = 400 /\ pc = "idle" /\ invoked = {})
    /\ given.supplied = "both" => Ingestor \notin invoked

\* C18 (as claimed): an archive with a name that resolves outside the working
\* directory is never extracted, no parser task is started for it, and its run ends
\* with the input error 400.
C18_EscapingArchiveRejected ==
    Escapes(given.archive) =>
        /\ ~given.extracted
        /\ Parser \notin invoked
        /\ pc = "done" => taskResult = [kind |-> "error", status |-> 400, id |-> 0]

AtRest == pc \in {"idle", "done"} /\ ~waiting /\ stream = "off"

\* C11 (as claimed): an artifact older than the retention window does not stay in
\* the store: whenever the service has come to rest, with nothing left to run until
\* the next request, the store holds no artifact older than the window.
C11_NoExpiredArtifactAtRest ==
    AtRest => \A id \in Ids : ~(id \in store /\ id \in old)

\* C21: when the context analyzer's text transform fails (it raises, answers nothing,
\* or answers text that does not decode), the stage returns the default context map,
\* ends Completed, raises nothing, and the run goes on to the next stage.
C21_ContextFailureGivesDefault ==
    [][\A r \in ContextFailures :
         ContextFinish(r) => /\ context_map' = "default"
                             /\ state'[Context] = Completed
                             /\ pc' = "p_ctx_completed"
                             /\ exc' = 0
                             /\ raisedBy' = None]_vars

\* the summarizer is about to be started on the default context map
C21_Witness ==
    /\ pc = "p_sum_running"
    /\ context_map = "default"
    /\ state[Context] = Completed
    /\ exc = 0

\* C22 (as claimed): the event queue is a bounded channel: whatever it holds
\* undelivered, it holds within a capacity it was built with, whether or not a
\* stream is reading.
C22_EventBusIsBounded ==
    queue # <<>> => /\ maxsize > 0
                    /\ Len(queue) <= maxsize

\* C23: on entry to every run, also on an orchestrator that an earlier run left with
\* all stages Completed or Failed, the five stages after the ingestor are Idle (and
\* have been reported Idle, in the order of the list) before the ingestor is invoked;
\* up to that point the ingestor's recorded state is the one the earlier run left.
C23_ResetSkipsIngestor ==
    /\ [](pc = "ingest" => /\ \A a \in Agents \ {Ingestor} : state[a] = Idle
                           /\ Ingestor \notin invoked
                           /\ Len(emitted) = 5
                           /\ \A i \in 1..5 : /\ emitted[i].agent = agents[i + 1]
                                              /\ emitted[i].state = Idle)
    /\ [][(pc \in {"p_start", "p_reset"}) => (state'[Ingestor] = state[Ingestor])]_vars

\* the second run is about to invoke the ingestor, whose state is still the first run's
C23_Witness ==
    /\ pc = "ingest"
    /\ runs = 2
    /\ state[Ingestor] \in {Completed, Failed}
    /\ \A a \in Agents \ {Ingestor} : state[a] = Idle

\* the warning of line 1583 as it sits in the queue
TruncationWarning(run) == [stage |-> "pipeline", state |-> None, run |-> run]

\* C25: when the ingestor found n files, one parser task is created for each of the
\* first min(n, MAX_FILES) of them and for no other, and gather returns that many
\* results; when n exceeds MAX_FILES the step logs a warning and nothing else comes
\* of it: no Failed state is reported or recorded and no exception is raised.
C25_ExcessFilesAreDropped ==
    [][/\ (pc = "p_parser_running" /\ pc' = "fanout") =>
              /\ \A i \in 1..MAX_FILES : fileSt'[i] = "new" <=> i <= Min(nFound, MAX_FILES)
              /\ Len(emitted') = 1 + (IF nFound > MAX_FILES THEN 1 ELSE 0)
              /\ emitted'[1].agent = Parser /\ emitted'[1].state = Running
              /\ nFound > MAX_FILES => /\ emitted'[2].event_type = "log"
                                       /\ emitted'[2].stage = "pipeline"
              /\ state' = [state EXCEPT ![Parser] = Running]
              /\ exc' = 0
       /\ (pc = "fanout" /\ pc' = "p_parser_completed") =>
              Len(parsed_results') = Min(nFound, MAX_FILES)]_vars

\* a run that dropped files (routes.py logs nothing else at stage "pipeline") ended
\* with the pipeline and every stage Completed
C25_Witness ==
    /\ app = "routes"
    /\ lastPipe = Completed
    /\ \E i \in 1..Len(queue) : queue[i] = TruncationWarning(runs)
    /\ \A a \in Agents : state[a] = Completed

\* C26 (as claimed): a stream is handed no event of a run that had ended before its
\* consumer connected.  An open stream has read everything queued before the next
\* conversion is accepted, so an event of an earlier run can only reach a consumer
\* that connected after that run: every event a stream sends is of the latest run.
C26_StreamSendsOnlyTheLatestRun ==
    \A i \in 1..Len(sent) : sent[i].run = runs

\* a queued state_update of a stage agent (not of the pipeline) reporting Failed
StageFailedEntry(e, run) == e.run = run /\ e.state = Failed /\ e.stage # "pipeline"

\* C27 (as claimed): a run whose pipeline ends Completed has emitted no Failed state
\* event for any stage: none is among the events of that run still in the queue.
C27_NoFailedEventInCompletedRun ==
    lastPipe = Completed => \A i \in 1..Len(queue) : ~StageFailedEntry(queue[i], runs)

\* C28: from the moment a run emits pipeline Completed (and then returns its
\* identifier) the recorded state of all six agents is Completed, also when a stage
\* had recorded Failed for itself earlier in the run.
C28_CompletedRunLeavesAllCompleted ==
    lastPipe = Completed => \A a \in Agents : state[a] = Completed

\* the run returned its identifier after the parser or the summarizer had reported
\* Failed for itself (the event is still queued)
C28_Witness ==
    /\ pc = "done"
    /\ taskResult.kind = "value"
    /\ taskResult.id = runs
    /\ \E i \in 1..Len(queue) : StageFailedEntry(queue[i], runs)
    /\ \A a \in Agents : state[a] = Completed

\* C29 (as claimed): in the first run of the process, which starts with progress 0,
\* an event reports progress 100 only if it is the pipeline Completed event of that
\* run or comes after it.
C29_FullProgressOnlyAtCompletion ==
    runs = 1 => \A i \in 1..Len(emitted) :
                    emitted[i].progress = 100 => lastPipe = Completed

\* C30 (as claimed): while a per-file invocation of the parser agent is still
\* executing (its task reported Running and has not returned), every event that is
\* emitted reports ParserAgent as the current agent.
C30_CurrentAgentDuringFanOut ==
    (pc = "fanout" /\ \E i \in 1..MAX_FILES : fileSt[i] = "waiting") =>
        \A j \in 1..Len(emitted) : emitted[j].current_agent = Parser

\* the number of calls of chat.completions.create made so far
Attempts == Len(failures) + (IF lmPhase = "returned" THEN 1 ELSE 0)

\* what is behind forward: grows with every step it takes
Behind == Len(failures) + Len(waits) + (IF lmPhase \in {"returned", "raised"} THEN 1 ELSE 0)

\* C24: forward makes at most 5 attempts; the k-th failed attempt (k = 0..3) is
\* followed by a pause of min(2^k, 30) seconds; a successful attempt returns its
\* response and nothing more is attempted; when the 5th attempt fails the error is
\* raised, without a pause and without a value; every step brings the call nearer
\* to its end, and it is never stuck before the end.
C24_ForwardTerminates ==
    /\ [](/\ Attempts <= 5
          /\ waits = [k \in 1..Len(waits) |-> Min(Pow2(k - 1), 30)]
          /\ Len(waits) <= 4
          /\ lmPhase = "try" => Len(waits) = Len(failures)
          /\ lmPhase = "sleep" => Len(waits) = Len(failures) - 1
          /\ lmPhase = "returned" => /\ lmValue \in Contents
                                     /\ Len(waits) = Len(failures)
                                     /\ ~ENABLED NextForward
          /\ lmPhase = "raised" => /\ Len(failures) = 5
                                   /\ Len(waits) = 4
                                   /\ lmValue = None
                                   /\ ~ENABLED NextForward
          /\ lmPhase \in {"try", "sleep"} => ENABLED NextForward)
    /\ [][Behind' > Behind /\ Behind' <= 10]_vars

\* four attempts failed and were waited for, the fifth failed and the error went up
C24_Witness ==
    /\ lmPhase = "raised"
    /\ waits = <<1, 2, 4, 8>>
    /\ Len(failures) = 5

====
